---- MODULE Spec2Model ----
(***************************************************************************)
(* The chat view of openvizui (src/src/pages/Chat.tsx): the pty-data       *)
(* listener (line reassembly, classification), the turn aggregator         *)
(* (handleRawOutput, handleJsonEvent, sendMessage, handleClear), the       *)
(* active-tool effect and the delayed tool launch of initChatPty; and the   *)
(* terminal view (src/src/components/Terminal.tsx): the handler of OSC 7   *)
(* that tracks the working directory, and the opening of the pty.          *)
(*                                                                         *)
(* Text is a sequence of tokens.  A token is one character, or one run of  *)
(* characters that the model never cuts (an escape sequence, the body of   *)
(* a JSON object, a fixed notice); Width gives its length in characters.   *)
(***************************************************************************)
EXTENDS Integers, Sequences, FiniteSets, TLC

----------------------------------------------------------------------------
(* Bounds of the model *)

MaxMsgs == 3
MaxBuf == 2
MaxLine == 1
MaxInFlight == 1
MaxBlocks == 1

----------------------------------------------------------------------------
(* Text *)

NL == "\n"
CR == "\r"
\* ESC [ 3 1 m : a colour sequence (kept by cleanAnsiForDisplay, removed by strip-ansi)
CSI == "CSI"
\* ESC ] 0 ; : the introducer of an operating-system command
OSC == "OSC"
\* \x07 : a control character, and the terminator of an operating-system command
BEL == "BEL"

\* Bodies of the JSON objects of the wire, between "{" and "}"
BodyResult == "\"type\":\"result\""
BodyText == "\"type\":\"assistant\",\"content\":[{\"type\":\"text\",\"text\":\"Hi\"}]"
BodyTool == "\"type\":\"message\",\"message\":{\"content\":[{\"type\":\"tool_use\",\"name\":\"Read\"},{\"type\":\"text\",\"text\":\"Hi\"}]}"
BodyOther == "\"type\":\"system\""
BodyOtherText == "\"type\":\"system\",\"text\":\"x\""
BodyStringContent == "\"type\":\"assistant\",\"content\":\"x\""
BodyNullBlock == "\"type\":\"assistant\",\"content\":[null]"
Bodies == {BodyResult, BodyText, BodyTool, BodyOther, BodyOtherText, BodyStringContent,
           BodyNullBlock}

Width(tok) ==
    CASE tok = CSI -> 5
      [] tok = OSC -> 4
      [] tok = "null" -> 4
      [] tok = "..." -> 3
      [] tok = "Hi" -> 2
      [] tok = "Actual output here" -> 18
      [] tok = "hello " -> 6
      [] tok = "world" -> 5
      [] tok = BodyResult -> 15
      [] tok = BodyText -> 58
      [] tok = BodyTool -> 97
      [] tok = BodyOther -> 15
      [] tok = BodyOtherText -> 26
      [] tok = BodyStringContent -> 32
      [] tok = BodyNullBlock -> 35
      [] OTHER -> 1

RECURSIVE StrLen(_)
StrLen(s) == IF s = <<>> THEN 0 ELSE Width(Head(s)) + StrLen(Tail(s))

\* White space of String.prototype.trim
IsSpace(tok) == tok \in {" ", NL, CR}

RECURSIVE TrimStart(_)
TrimStart(s) ==
    IF s # <<>> /\ IsSpace(Head(s)) THEN TrimStart(Tail(s)) ELSE s

RECURSIVE TrimEnd(_)
TrimEnd(s) ==
    IF s # <<>> /\ IsSpace(s[Len(s)]) THEN TrimEnd(SubSeq(s, 1, Len(s) - 1)) ELSE s

Trim(s) == TrimEnd(TrimStart(s))

\* str.split(/\r?\n/): the segments between the delimiters, the last one being
\* the text after the last delimiter (empty when the text ends with one)
RECURSIVE SplitFrom(_, _, _)
SplitFrom(s, cur, acc) ==
    IF s = <<>> THEN Append(acc, cur)
    ELSE IF Head(s) = NL
         THEN LET seg == IF cur # <<>> /\ cur[Len(cur)] = CR
                         THEN SubSeq(cur, 1, Len(cur) - 1) ELSE cur
              IN SplitFrom(Tail(s), <<>>, Append(acc, seg))
         ELSE SplitFrom(Tail(s), Append(cur, Head(s)), acc)

SplitLines(s) == SplitFrom(s, <<>>, <<>>)

\* Position of the first BEL of s, 0 when there is none
RECURSIVE FirstBel(_, _)
FirstBel(s, i) ==
    IF i > Len(s) THEN 0 ELSE IF s[i] = BEL THEN i ELSE FirstBel(s, i + 1)

\* .replace(/\u001b\][0-9]*;.*?(?:\u0007|\u001b\\)/g, ''): every operating-system
\* command, from its introducer to the nearest terminator, is removed
RECURSIVE RemoveOsc(_)
RemoveOsc(s) ==
    IF s = <<>> THEN <<>>
    ELSE IF Head(s) = OSC /\ FirstBel(Tail(s), 1) > 0
         THEN RemoveOsc(SubSeq(Tail(s), FirstBel(Tail(s), 1) + 1, Len(Tail(s))))
         ELSE <<Head(s)>> \o RemoveOsc(Tail(s))

\* .replace(/[\x00-\x08\x0B\x0C\x0E-\x1A\x1C-\x1F\x7F]/g, '')
StripControls(s) == SelectSeq(s, LAMBDA tok : tok # BEL)

cleanAnsiForDisplay(str) == StripControls(RemoveOsc(str))

\* strip-ansi: colour sequences are removed; of an unterminated introducer
\* ESC ] 0 ; the library leaves the ";" (the token stays, as visible text)
stripAnsi(str) == SelectSeq(str, LAMBDA tok : tok # CSI)

\* .replace(/^> /, '')
DropPrompt(s) ==
    IF Len(s) >= 2 /\ s[1] = ">" /\ s[2] = " " THEN SubSeq(s, 3, Len(s)) ELSE s

----------------------------------------------------------------------------
(* JSON.parse of one line *)

JsonNull == [json |-> "null", type |-> "", blocks |-> <<>>, extra |-> FALSE]
\* A number: reading a field of it gives undefined
JsonNumber == [json |-> "number", type |-> "", blocks |-> <<>>, extra |-> FALSE]

TextBlock(t) == [type |-> "text", text |-> t, name |-> ""]
ToolBlock(n) == [type |-> "tool_use", text |-> <<>>, name |-> n]
\* A null among the blocks: reading block.type is a TypeError
NullBlock == [type |-> "null", text |-> <<>>, name |-> ""]
\* A content that is a string, not a list, stands where the blocks are:
\* contentBlocks.forEach is not a function, calling it is a TypeError
NotAList == <<[type |-> "string", text |-> <<"x">>, name |-> ""]>>

\* The value of an object body: its type, the list found at message.content
\* or content, and whether it carries a truthy content or text field
BodyValue(b) ==
    CASE b = BodyResult -> [json |-> "object", type |-> "result", blocks |-> <<>>, extra |-> FALSE]
      [] b = BodyText -> [json |-> "object", type |-> "assistant",
                          blocks |-> <<TextBlock(<<"Hi">>)>>, extra |-> TRUE]
      [] b = BodyTool -> [json |-> "object", type |-> "message",
                          blocks |-> <<ToolBlock("Read"), TextBlock(<<"Hi">>)>>, extra |-> FALSE]
      [] b = BodyOther -> [json |-> "object", type |-> "system", blocks |-> <<>>, extra |-> FALSE]
      [] b = BodyOtherText -> [json |-> "object", type |-> "system", blocks |-> <<>>, extra |-> TRUE]
      [] b = BodyStringContent -> [json |-> "object", type |-> "assistant",
                                   blocks |-> NotAList, extra |-> TRUE]
      [] b = BodyNullBlock -> [json |-> "object", type |-> "assistant",
                               blocks |-> <<NullBlock>>, extra |-> TRUE]

\* JSON.parse(line): white space around the value is allowed; anything that is
\* not a complete value is a SyntaxError
JsonParse(line) ==
    LET t == Trim(line) IN
    IF Len(t) = 3 /\ t[1] = "{" /\ t[3] = "}" /\ t[2] \in Bodies
    THEN [ok |-> TRUE, data |-> BodyValue(t[2])]
    ELSE IF t = <<"null">>
    THEN [ok |-> TRUE, data |-> JsonNull]
    ELSE IF t = <<"5">>
    THEN [ok |-> TRUE, data |-> JsonNumber]
    ELSE [ok |-> FALSE, data |-> JsonNull]

----------------------------------------------------------------------------
(* State *)

VARIABLES
    messages,          \* useState<Message[]>([])
    outputBufferRef,   \* useRef(''): the session output buffer
    lineBufferRef,     \* useRef(''): the pending line fragment
    isStructuredTurnRef, \* useRef(false): the turn-mode flag
    activeToolId,      \* the store's active tool, "" when none is selected
    mounted,           \* whether the effects of the component have run
    initCalls,         \* the initChatPty calls whose awaits have not returned, each the tool it captured
    launchTimer,       \* ptyInitTimeoutRef: the command of the pending 800 ms timer, "" when none
    now,               \* Date.now()
    lastOp,            \* history: the last operation
    structuredSeen,    \* history: a message/assistant or result event was handled since the last submit
    harness,           \* the experiment a scripted specification runs; unused by Spec
    currentDirectory,  \* the store's working directory, <<>> when none is known
    terminal,          \* the terminal view (components/Terminal.tsx): the runs of its effect
    listens,           \* the listen('pty-data') calls of the chat view that SpecEffects follows
    ptyWritten         \* history: what the chat view wrote to the pty in the last step, <<>> when nothing

vars == <<messages, outputBufferRef, lineBufferRef, isStructuredTurnRef, activeToolId,
          mounted, initCalls, launchTimer, now, lastOp, structuredSeen, harness,
          currentDirectory, terminal, listens, ptyWritten>>

NoTool == ""
Tools == {"bash", "claude"}

\* TOOL_COMMANDS[activeToolId] || activeToolId
ToolCommand(tool) == IF tool = "google" THEN "gemini" ELSE tool

Msg(id, role, content, streaming, blocks) ==
    [id |-> id, role |-> role, content |-> content, isStreaming |-> streaming, blocks |-> blocks]

Placeholder == <<"...">>
\* `\n> *System: Switched to tool ${activeToolId}\n`
SystemNotice(tool) == <<"SystemNotice", tool>>
\* `> Executing: \`${cmd}\`\n`
ExecNotice(cmd) == <<"ExecNotice", cmd>>

Last(msgs) == msgs[Len(msgs)]
Front(msgs) == SubSeq(msgs, 1, Len(msgs) - 1)

\* last && last.role === 'assistant' && last.isStreaming
LastIsOpenAssistant(msgs) ==
    msgs # <<>> /\ Last(msgs).role = "assistant" /\ Last(msgs).isStreaming

----------------------------------------------------------------------------
(* The updaters handed to setMessages.  An updater is run by React either at
   once (when the component has no update pending and React computes the
   state eagerly) or when the component renders, after the handler that
   queued it has returned; it reads and writes outputBufferRef when it runs. *)

RawUpdater(clean) == [fn |-> "raw", clean |-> clean, blocks |-> <<>>]
AssistantUpdater(blocks) == [fn |-> "assistant", clean |-> <<>>, blocks |-> blocks]
ResultUpdater == [fn |-> "result", clean |-> <<>>, blocks |-> <<>>]

Updated(msgs, buf) == [messages |-> msgs, outputBuffer |-> buf, same |-> FALSE, threw |-> FALSE]
Same(msgs, buf) == [messages |-> msgs, outputBuffer |-> buf, same |-> TRUE, threw |-> FALSE]
\* The updater threw: nothing is returned
Threw(msgs, buf) == [messages |-> msgs, outputBuffer |-> buf, same |-> TRUE, threw |-> TRUE]

\* The updater of handleRawOutput that shows the last line only
RunRawUpdaterLastLine(clean, prev, buf, t) ==
    IF LastIsOpenAssistant(prev)
    THEN Updated(Append(Front(prev), [Last(prev) EXCEPT !.content = TrimStart(DropPrompt(clean))]), buf)
    ELSE IF prev = <<>> \/ Last(prev).role = "user"
    THEN Updated(Append(prev, Msg(t, "assistant", clean, TRUE, <<>>)), clean)
    ELSE Same(prev, buf)

\* The updater of handleRawOutput that does not look at isStreaming
RunRawUpdaterOnClosed(clean, prev, buf, t) ==
    IF prev # <<>> /\ Last(prev).role = "assistant"
    THEN Updated(Append(Front(prev), [Last(prev) EXCEPT !.content = TrimStart(DropPrompt(buf))]), buf)
    ELSE Updated(Append(prev, Msg(t, "assistant", clean, TRUE, <<>>)), clean)

\* The updater of handleRawOutput
RunRawUpdater(clean, prev, buf, t) ==
    IF LastIsOpenAssistant(prev)
    THEN Updated(Append(Front(prev), [Last(prev) EXCEPT !.content = TrimStart(DropPrompt(buf))]), buf)
    ELSE IF prev = <<>> \/ Last(prev).role = "user"
    THEN Updated(Append(prev, Msg(t, "assistant", clean, TRUE, <<>>)), clean)
    ELSE Same(prev, buf)

IsText(block) == block.type = "text"
\* block.type === 'text' && block.text
IsNonEmptyText(block) == block.type = "text" /\ block.text # <<>>

RECURSIVE ConcatText(_)
ConcatText(blocks) ==
    IF blocks = <<>> THEN <<>> ELSE Head(blocks).text \o ConcatText(Tail(blocks))

\* contentBlocks.forEach(block => ... block.type ...) throws a TypeError
ForEachThrows(contentBlocks) ==
    contentBlocks = NotAList \/ \E i \in 1..Len(contentBlocks) : contentBlocks[i] = NullBlock

\* The updater of handleJsonEvent for a message or assistant event
RunAssistantUpdater(contentBlocks, prev, buf, t) ==
    IF ForEachThrows(contentBlocks) THEN Threw(prev, buf)
    ELSE IF LastIsOpenAssistant(prev)
    THEN Updated(Append(Front(prev),
                        [Last(prev) EXCEPT
                           !.blocks = @ \o SelectSeq(contentBlocks, LAMBDA b : ~IsNonEmptyText(b)),
                           !.content = @ \o ConcatText(SelectSeq(contentBlocks, IsNonEmptyText))]),
                 buf)
    ELSE Updated(Append(prev, Msg(t, "assistant",
                                  ConcatText(SelectSeq(contentBlocks, IsText)), TRUE,
                                  SelectSeq(contentBlocks, LAMBDA b : ~IsText(b)))),
                 buf)

\* The updater of handleJsonEvent for a result event
RunResultUpdater(prev, buf) ==
    IF LastIsOpenAssistant(prev)
    THEN Updated(Append(Front(prev), [Last(prev) EXCEPT !.isStreaming = FALSE]), buf)
    ELSE Same(prev, buf)

RunUpdater(u, prev, buf, t) ==
    CASE u.fn = "raw" -> RunRawUpdater(u.clean, prev, buf, t)
      [] u.fn = "assistant" -> RunAssistantUpdater(u.blocks, prev, buf, t)
      [] u.fn = "result" -> RunResultUpdater(prev, buf)

\* setMessages(u) inside a handler whose state so far is r: with no update
\* pending and React computing eagerly, u runs at once, and an unchanged list
\* leaves the component clean; otherwise u is queued behind the others.  The
\* error of an updater that throws when run eagerly is suppressed by React: the
\* update is queued and throws again at the render
SetMessages(r, u, t) ==
    IF r.eager /\ r.queue = <<>>
    THEN LET a == RunUpdater(u, r.messages, r.outputBuffer, t) IN
         IF a.threw THEN [r EXCEPT !.queue = Append(@, u), !.eager = FALSE]
         ELSE IF a.same THEN r
         ELSE [r EXCEPT !.messages = a.messages, !.outputBuffer = a.outputBuffer, !.eager = FALSE]
    ELSE [r EXCEPT !.queue = Append(@, u)]

\* The render after the handler: the queued updaters run in order; an updater
\* that throws makes the render throw
RECURSIVE Render(_, _)
Render(r, t) ==
    IF r.queue = <<>> THEN r
    ELSE LET a == RunUpdater(Head(r.queue), r.messages, r.outputBuffer, t) IN
         IF a.threw THEN [r EXCEPT !.threw = TRUE, !.queue = <<>>]
         ELSE
         Render([r EXCEPT !.messages = a.messages, !.outputBuffer = a.outputBuffer,
                          !.queue = Tail(@)], t)

----------------------------------------------------------------------------
(* handleRawOutput, handleJsonEvent and the pty-data listener *)

\* The filter without the test for ">"
IsNoiseNoPrompt(clean) ==
    LET stripped == Trim(stripAnsi(clean)) IN
    (stripped = <<>> \/ stripped = <<"$">>) /\ StrLen(clean) < 5

IsNoise(clean) ==
    LET stripped == Trim(stripAnsi(clean)) IN
    (stripped = <<>> \/ stripped = <<">">> \/ stripped = <<"$">>) /\ StrLen(clean) < 5

ToolFilters(tool) == tool # NoTool /\ tool # "bash"

handleRawOutput(r, clean, tool, t) ==
    IF ToolFilters(tool) /\ (r.isStructuredTurn \/ IsNoise(clean)) THEN r
    ELSE SetMessages([r EXCEPT !.outputBuffer = @ \o clean], RawUpdater(clean), t)

handleJsonEvent(r, data, t) ==
    LET r1 == IF data.type \in {"message", "assistant"} \/ data.extra
              THEN [r EXCEPT !.isStructuredTurn = TRUE] ELSE r
    IN  IF data.type \in {"message", "assistant"}
        THEN SetMessages(r1, AssistantUpdater(data.blocks), t)
        ELSE IF data.type = "result"
        THEN SetMessages(r1, ResultUpdater, t)
        ELSE r1

\* One line of lines.forEach: a line that parses is handed to handleJsonEvent;
\* a SyntaxError, or the TypeError of reading null.type, lands in the catch
HandleLine(r, line, tool, t) ==
    IF Trim(line) = <<>> THEN r
    ELSE LET p == JsonParse(line) IN
         IF p.ok /\ p.data # JsonNull THEN handleJsonEvent(r, p.data, t)
         ELSE LET clean == cleanAnsiForDisplay(line) IN
              IF Trim(stripAnsi(clean)) # <<>> \/ StrLen(clean) >= 10
              THEN handleRawOutput(r, clean, tool, t)
              ELSE r

RECURSIVE HandleLines(_, _, _, _)
HandleLines(r, lines, tool, t) ==
    IF lines = <<>> THEN r
    ELSE HandleLines(HandleLine(r, Head(lines), tool, t), Tail(lines), tool, t)

\* The complete lines of the fragment and a chunk
CompleteLines(fragment, payload) == Front(SplitLines(fragment \o payload))

\* The new fragment taken from the chunk alone
NewFragmentOfChunk(fragment, payload) == Last(SplitLines(payload))

\* lines.pop() || '': the new fragment
NewFragment(fragment, payload) == Last(SplitLines(fragment \o payload))

\* The handlers of the complete lines of one chunk, and the render that follows
Handled(s, payload, tool, eager, t) ==
    LET r0 == [messages |-> s.messages, outputBuffer |-> s.outputBuffer,
               isStructuredTurn |-> s.isStructuredTurn, queue |-> <<>>, eager |-> eager,
               threw |-> FALSE]
    IN  Render(HandleLines(r0, CompleteLines(s.lineBuffer, payload), tool, t), t)

\* The render that follows the chunk throws
RenderThrows(s, payload, tool, eager, t) == Handled(s, payload, tool, eager, t).threw

\* The listener of 'pty-data' on one chunk, and the render that follows
PtyDataListener(s, payload, tool, eager, t) ==
    LET r == Handled(s, payload, tool, eager, t)
    IN  [messages |-> r.messages, outputBuffer |-> r.outputBuffer,
         isStructuredTurn |-> r.isStructuredTurn,
         lineBuffer |-> NewFragment(s.lineBuffer, payload)]

Session == [messages |-> messages, outputBuffer |-> outputBufferRef,
            isStructuredTurn |-> isStructuredTurnRef, lineBuffer |-> lineBufferRef]

----------------------------------------------------------------------------
(* Inputs *)

JsonLine(body) == <<"{", body, "}", NL>>

\* The chunks the pty emits here: one line, or two lines at once (the scripted
\* specifications below feed pieces of lines)
Chunks ==
    { <<"a", NL>>, JsonLine(BodyText), JsonLine(BodyTool), JsonLine(BodyResult),
      JsonLine(BodyText) \o JsonLine(BodyResult) }

\* What the user types
InputTexts == { <<"a">>, <<" ">>, <<>> }

----------------------------------------------------------------------------
(* Operations *)

\* The store before any directory is known: currentDirectory is falsy
NoDirectory == <<>>

\* The terminal view before its effect has run: no run of the effect yet
TerminalConstructed == [kind |-> "", views |-> <<>>]

\* The state after construction: the initial values of useState and useRef,
\* before the effects have run
Constructed ==
    /\ messages = <<>>
    /\ outputBufferRef = <<>>
    /\ lineBufferRef = <<>>
    /\ isStructuredTurnRef = FALSE
    /\ activeToolId \in {NoTool, "claude"}
    /\ mounted = FALSE
    /\ initCalls = <<>>
    /\ launchTimer = ""
    /\ now = 0
    /\ lastOp = "construct"
    /\ structuredSeen = FALSE
    /\ currentDirectory = NoDirectory
    /\ terminal = TerminalConstructed
    /\ listens = <<>>
    /\ ptyWritten = <<>>

FreshSession == [messages |-> <<>>, outputBuffer |-> <<>>, isStructuredTurn |-> FALSE,
                 lineBuffer |-> <<>>]

NoHarness == [mode |-> "off", todo |-> <<>>, other |-> <<>>, shadow |-> FreshSession,
              first |-> <<>>, round |-> 0, eager |-> FALSE]

Init == Constructed /\ harness = NoHarness

\* Every text the model holds stays within the bounds
WithinBounds(msgs, buf, fragment) ==
    /\ Len(msgs) <= MaxMsgs
    /\ Len(buf) <= MaxBuf
    /\ Len(fragment) <= MaxLine
    /\ \A i \in 1..Len(msgs) : Len(msgs[i].content) <= MaxBuf /\ Len(msgs[i].blocks) <= MaxBlocks

\* The effect of [activeToolId] that closes the streaming messages
ToolEffectClosing(msgs, tool) ==
    Append([i \in 1..Len(msgs) |-> [msgs[i] EXCEPT !.isStreaming = FALSE]],
           Msg(now, "assistant", SystemNotice(tool), FALSE, <<>>))

\* The effect of [activeToolId]: the buffers are reset and the notice is shown
ToolEffect(msgs, tool) ==
    IF tool # NoTool
    THEN Append(msgs, Msg(now, "assistant", SystemNotice(tool), FALSE, <<>>))
    ELSE msgs

\* The first run of the effects: the tool effect, then the subscription and initChatPty
MountEffects ==
    /\ ~mounted
    /\ mounted' = TRUE
    /\ outputBufferRef' = <<>>
    /\ isStructuredTurnRef' = FALSE
    /\ messages' = ToolEffect(messages, activeToolId)
    /\ initCalls' = Append(initCalls, activeToolId)
    /\ lastOp' = "mount"
    /\ UNCHANGED <<lineBufferRef, activeToolId, launchTimer, now, currentDirectory, structuredSeen>>
    /\ ptyWritten' = <<>>

Mount == MountEffects /\ UNCHANGED <<harness, terminal, listens>>

\* The user picks another tool: the cleanup of the subscription effect (the
\* timer is cleared), then the tool effect, then a new initChatPty
ToolChanges(tool) ==
    /\ mounted
    /\ tool # activeToolId
    /\ activeToolId' = tool
    /\ launchTimer' = ""
    /\ outputBufferRef' = <<>>
    /\ isStructuredTurnRef' = FALSE
    /\ messages' = ToolEffect(messages, tool)
    /\ initCalls' = Append(initCalls, tool)
    /\ lastOp' = "switch"
    /\ UNCHANGED <<lineBufferRef, mounted, now, currentDirectory, structuredSeen>>
    /\ ptyWritten' = <<>>

SwitchTool(tool) ==
    /\ Len(initCalls) < MaxInFlight
    /\ ToolChanges(tool)
    /\ Len(messages') <= MaxMsgs
    /\ UNCHANGED <<harness, terminal, listens>>

\* initChatPty returns from its awaits: with a tool captured and the pty open,
\* the launch timer is set (replacing the pending one); a failed ptyClose or
\* ptyOpen lands in the catch
InitPtyReturns(i, ok) ==
    /\ i \in 1..Len(initCalls)
    /\ initCalls' = SubSeq(initCalls, 1, i - 1) \o SubSeq(initCalls, i + 1, Len(initCalls))
    /\ launchTimer' = IF ok /\ initCalls[i] # NoTool THEN ToolCommand(initCalls[i]) ELSE launchTimer
    /\ lastOp' = "initPty"
    /\ UNCHANGED <<messages, outputBufferRef, lineBufferRef, isStructuredTurnRef, activeToolId,
                   mounted, now, currentDirectory, structuredSeen, harness, terminal, listens>>
    /\ ptyWritten' = <<>>

\* The 800 ms timer of initChatPty fires: the command is written to the pty
\* and announced (React drops the update of a component that is unmounted)
LaunchTimerFires ==
    /\ launchTimer # ""
    /\ Len(messages) < MaxMsgs
    /\ messages' = IF mounted
                   THEN Append(messages, Msg(now, "assistant", ExecNotice(launchTimer), FALSE, <<>>))
                   ELSE messages
    /\ launchTimer' = ""
    /\ lastOp' = "launch"
    /\ UNCHANGED <<outputBufferRef, lineBufferRef, isStructuredTurnRef, activeToolId,
                   mounted, initCalls, now, currentDirectory, structuredSeen, harness, terminal, listens>>
    /\ ptyWritten' = <<launchTimer, CR>>

\* prev.map(m => m.isStreaming ? { ...m, isStreaming: false } : m)
CloseAll(msgs) == [i \in 1..Len(msgs) |-> [msgs[i] EXCEPT !.isStreaming = FALSE]]

\* sendMessage that leaves the streaming messages open
SubmittedMessagesKeepsOpen(msgs, text, t) ==
    msgs \o << Msg(t, "user", text, FALSE, <<>>),
               Msg(t + 1, "assistant", Placeholder, TRUE, <<>>) >>

\* sendMessage that marks the user message as streaming too
SubmittedMessagesUserStreaming(msgs, text, t) ==
    CloseAll(msgs) \o << Msg(t, "user", text, TRUE, <<>>),
                         Msg(t + 1, "assistant", Placeholder, TRUE, <<>>) >>

\* The list after the two updaters of sendMessage with inputValue = text
SubmittedMessages(msgs, text, t) ==
    CloseAll(msgs) \o << Msg(t, "user", text, FALSE, <<>>),
                         Msg(t + 1, "assistant", Placeholder, TRUE, <<>>) >>

\* The session after sendMessage with a non-blank inputValue = text
SubmittedSession(s, text, t) ==
    [s EXCEPT !.isStructuredTurn = FALSE,
              !.messages = SubmittedMessages(@, text, t),
              !.outputBuffer = <<>>]

\* sendMessage that writes the input before it looks at it
SubmittedWriteUnchecked(text) == text \o <<CR>>

\* ptyWrite(`${inputValue}\r`), which a blank input never reaches
SubmittedWrite(text) == IF Trim(text) = <<>> THEN <<>> ELSE text \o <<CR>>

sendMessage(text) ==
    /\ mounted
    /\ IF Trim(text) = <<>>
       THEN /\ lastOp' = "submitBlank"
            /\ UNCHANGED <<messages, outputBufferRef, isStructuredTurnRef, structuredSeen>>
       ELSE /\ LET s == SubmittedSession(Session, text, now)
               IN  /\ isStructuredTurnRef' = s.isStructuredTurn
                   /\ messages' = s.messages
                   /\ outputBufferRef' = s.outputBuffer
            /\ lastOp' = "submit"
            /\ structuredSeen' = FALSE
    /\ UNCHANGED <<lineBufferRef, activeToolId, mounted, initCalls, launchTimer, now, currentDirectory>>
    /\ ptyWritten' = SubmittedWrite(text)

Submit(text) ==
    /\ sendMessage(text)
    /\ Len(messages') <= MaxMsgs
    /\ UNCHANGED <<harness, terminal, listens>>

\* handleClear
ClearedMessages(msgs) == <<>>

\* handleClear that forgets the working directory
ClearedDirectoryForgotten(dir) == NoDirectory

\* handleClear never calls setCurrentDirectory
ClearedDirectory(dir) == dir

handleClear ==
    /\ mounted
    /\ messages' = ClearedMessages(messages)
    /\ outputBufferRef' = <<>>
    /\ currentDirectory' = ClearedDirectory(currentDirectory)
    /\ ptyWritten' = <<"clear", CR>>
    /\ lastOp' = IF lastOp = "submit" THEN "clearAfterSubmit" ELSE "clear"
    /\ UNCHANGED <<lineBufferRef, isStructuredTurnRef, activeToolId, mounted, initCalls,
                   launchTimer, now, structuredSeen>>

Clear == handleClear /\ UNCHANGED <<harness, terminal, listens>>

\* A recognized structured event is among the lines
HasRecognizedEvent(lines) ==
    \E i \in 1..Len(lines) :
        JsonParse(lines[i]).ok /\ JsonParse(lines[i]).data.type \in {"message", "assistant", "result"}

\* An error thrown by the render, with no error boundary in the tree: React
\* unmounts the tree, the cleanups run, and what the component held is gone
\* (a later mount starts from the constructed values)
RenderError ==
    /\ mounted' = FALSE
    /\ messages' = <<>>
    /\ outputBufferRef' = <<>>
    /\ lineBufferRef' = <<>>
    /\ isStructuredTurnRef' = FALSE
    /\ initCalls' = <<>>
    /\ launchTimer' = ""
    /\ lastOp' = "renderError"
    /\ structuredSeen' = FALSE
    /\ UNCHANGED <<activeToolId, now, currentDirectory>>
    /\ ptyWritten' = <<>>

\* The pty emits a chunk and the listener runs on it
Feed(payload, eager) ==
    /\ mounted
    /\ IF RenderThrows(Session, payload, activeToolId, eager, now)
       THEN RenderError
       ELSE LET s == PtyDataListener(Session, payload, activeToolId, eager, now)
                lines == CompleteLines(lineBufferRef, payload)
            IN  /\ messages' = s.messages
                /\ outputBufferRef' = s.outputBuffer
                /\ isStructuredTurnRef' = s.isStructuredTurn
                /\ lineBufferRef' = s.lineBuffer
                /\ lastOp' = "data"
                /\ structuredSeen' = (structuredSeen \/ HasRecognizedEvent(lines))
                /\ UNCHANGED <<activeToolId, mounted, initCalls, launchTimer, now, currentDirectory>>
                /\ ptyWritten' = <<>>

PtyData(payload, eager) ==
    /\ Feed(payload, eager)
    /\ WithinBounds(messages', outputBufferRef', lineBufferRef')
    /\ UNCHANGED <<harness, terminal, listens>>

Next ==
    \/ Mount
    \/ \E tool \in Tools : SwitchTool(tool)
    \/ \E i \in 1..MaxInFlight, ok \in BOOLEAN : InitPtyReturns(i, ok)
    \/ LaunchTimerFires
    \/ \E text \in InputTexts : Submit(text)
    \/ Clear
    \/ \E payload \in Chunks, eager \in BOOLEAN : PtyData(payload, eager)

Spec == Init /\ [][Next]_vars

----------------------------------------------------------------------------
(* The same session fed with what a tool may print besides well-formed
   events: objects of other shapes, JSON values that are not objects, and
   events whose content is not a list of blocks. *)

EventChunks ==
    { JsonLine(BodyOther), JsonLine(BodyOtherText), <<"null", NL>>, <<"5", NL>>,
      JsonLine(BodyStringContent), JsonLine(BodyNullBlock), JsonLine(BodyText), <<"a", NL>> }

NextEvents ==
    \/ Mount
    \/ \E tool \in Tools : SwitchTool(tool)
    \/ \E i \in 1..MaxInFlight, ok \in BOOLEAN : InitPtyReturns(i, ok)
    \/ LaunchTimerFires
    \/ \E text \in InputTexts : Submit(text)
    \/ Clear
    \/ \E payload \in EventChunks, eager \in BOOLEAN : PtyData(payload, eager)

SpecEvents == Init /\ [][NextEvents]_vars

----------------------------------------------------------------------------
(* Replay: a chunk sequence is fed to a cleared session, the session is
   cleared, and the same sequence is fed again.  React computes eagerly, or
   not, in the same way all along one experiment. *)

MaxReplay == 2

ClearMark == <<"clear">>

ReplayChunks == { <<"a", NL>>, <<"a">>, <<"a", NL, "b">>, JsonLine(BodyText), JsonLine(BodyResult) }

ReplaySequences ==
    UNION { [1..n -> ReplayChunks] : n \in 1..MaxReplay }

\* What the chat view shows of the list: everything but the ids
View(msgs) ==
    [i \in 1..Len(msgs) |->
        [role |-> msgs[i].role, content |-> msgs[i].content,
         isStreaming |-> msgs[i].isStreaming, blocks |-> msgs[i].blocks]]

InitReplay ==
    /\ Constructed
    /\ harness \in { [NoHarness EXCEPT !.mode = "replay", !.eager = e,
                        !.todo = <<ClearMark>> \o seq \o <<ClearMark>> \o seq] :
                     seq \in ReplaySequences, e \in BOOLEAN }

ReplayMount == harness.mode = "replay" /\ MountEffects /\ UNCHANGED <<harness, terminal, listens>>

\* The clear before a replay; the second one notes what the first replay left
ReplayClear ==
    /\ harness.mode = "replay"
    /\ harness.todo # <<>> /\ Head(harness.todo) = ClearMark
    /\ handleClear
    /\ UNCHANGED <<terminal, listens>>
    /\ harness' = [harness EXCEPT !.todo = Tail(@), !.round = @ + 1,
                     !.first = IF harness.round = 1 THEN View(messages) ELSE @]

ReplayFeed ==
    /\ harness.mode = "replay"
    /\ harness.todo # <<>> /\ Head(harness.todo) # ClearMark
    /\ Feed(Head(harness.todo), harness.eager)
    /\ UNCHANGED <<terminal, listens>>
    /\ harness' = [harness EXCEPT !.todo = Tail(@)]

NextReplay == ReplayMount \/ ReplayClear \/ ReplayFeed

SpecReplay == InitReplay /\ [][NextReplay]_vars

----------------------------------------------------------------------------
(* Cuts: one stream is fed to the session cut into chunks, and to a copy of
   the session (the shadow) as a single chunk, from the same state.  In both
   runs React computes the first update of a handler eagerly; the updates
   queued behind it run at the render, in either regime. *)

Streams ==
    { <<"a", NL, "b", NL>>,
      <<"a", NL>> \o JsonLine(BodyResult) \o <<"b", NL>>,
      JsonLine(BodyText) \o JsonLine(BodyResult),
      <<"a", NL, "b", NL>> \o JsonLine(BodyResult) \o <<"a", NL>> }

\* Every way of cutting s into non-empty chunks
RECURSIVE Cuts(_)
Cuts(s) ==
    IF s = <<>> THEN { <<>> }
    ELSE UNION { { <<SubSeq(s, 1, k)>> \o rest : rest \in Cuts(SubSeq(s, k + 1, Len(s))) } :
                 k \in 1..Len(s) }

InitCut ==
    /\ Constructed
    /\ harness \in UNION { { [NoHarness EXCEPT !.mode = "cut", !.eager = e, !.todo = cut,
                                  !.other = <<stream>>] :
                               cut \in Cuts(stream), e \in {TRUE} } :
                             stream \in Streams }

CutMount == harness.mode = "cut" /\ MountEffects /\ UNCHANGED <<harness, terminal, listens>>

\* The experiment starts from the mounted session, or after a submit
CutSubmit ==
    /\ harness.mode = "cut"
    /\ messages = <<>> \/ Len(messages) = 1
    /\ sendMessage(<<"a">>)
    /\ UNCHANGED <<harness, terminal, listens>>

\* The shadow is the session as it is when the first chunk is about to be fed
CutBegin ==
    /\ harness.mode = "cut"
    /\ mounted
    /\ UNCHANGED <<terminal, listens>>
    /\ harness' = [harness EXCEPT !.mode = "cutting", !.shadow = Session]
    /\ UNCHANGED <<messages, outputBufferRef, lineBufferRef, isStructuredTurnRef, activeToolId,
                   mounted, initCalls, launchTimer, now, currentDirectory, lastOp, structuredSeen>>
    /\ ptyWritten' = <<>>

CutFeed ==
    /\ harness.mode = "cutting"
    /\ harness.todo # <<>>
    /\ Feed(Head(harness.todo), harness.eager)
    /\ UNCHANGED <<terminal, listens>>
    /\ harness' = [harness EXCEPT !.todo = Tail(@)]

CutFeedShadow ==
    /\ harness.mode = "cutting"
    /\ harness.todo = <<>> /\ harness.other # <<>>
    /\ UNCHANGED <<terminal, listens>>
    /\ harness' = [harness EXCEPT
                     !.other = Tail(@),
                     !.shadow = PtyDataListener(@, Head(harness.other), activeToolId,
                                                harness.eager, now)]
    /\ UNCHANGED <<messages, outputBufferRef, lineBufferRef, isStructuredTurnRef, activeToolId,
                   mounted, initCalls, launchTimer, now, currentDirectory, lastOp, structuredSeen>>
    /\ ptyWritten' = <<>>

NextCut == CutMount \/ CutSubmit \/ CutBegin \/ CutFeed \/ CutFeedShadow

SpecCut == InitCut /\ [][NextCut]_vars

----------------------------------------------------------------------------
(* Submit, clear, and then on: after some output (possibly ending in a piece
   of a line) the user submits and clears at once; the operations that follow
   are applied to the session and to a session that starts from the values it
   is constructed with (the shadow). *)

MaxAfter == 2

SubmitMark == "submit"

PreludeChunks == { <<"b">>, <<"a", NL>>, JsonLine(BodyText) }

\* What follows the clear: a submit of "a", or a chunk
AfterOps ==
    { <<SubmitMark, "a">>, <<"a", NL>>, <<"a">>, JsonLine(BodyText), JsonLine(BodyResult) }

AfterSequences == UNION { [1..n -> AfterOps] : n \in 1..MaxAfter }

InitFresh ==
    /\ Constructed
    /\ harness \in { [NoHarness EXCEPT !.mode = "fresh", !.eager = e, !.todo = pre,
                                        !.other = after] :
                     pre \in { <<>> } \cup { <<c>> : c \in PreludeChunks },
                     after \in AfterSequences, e \in BOOLEAN }

FreshMount == harness.mode = "fresh" /\ MountEffects /\ UNCHANGED <<harness, terminal, listens>>

\* The output before the submit
FreshPrelude ==
    /\ harness.mode = "fresh" /\ harness.round = 0
    /\ harness.todo # <<>>
    /\ Feed(Head(harness.todo), harness.eager)
    /\ UNCHANGED <<terminal, listens>>
    /\ harness' = [harness EXCEPT !.todo = Tail(@)]

FreshSubmit ==
    /\ harness.mode = "fresh" /\ harness.round = 0
    /\ harness.todo = <<>>
    /\ sendMessage(<<"a">>)
    /\ UNCHANGED <<terminal, listens>>
    /\ harness' = [harness EXCEPT !.round = 1]

FreshClear ==
    /\ harness.mode = "fresh" /\ harness.round = 1
    /\ handleClear
    /\ UNCHANGED <<terminal, listens>>
    /\ harness' = [harness EXCEPT !.round = 2, !.shadow = FreshSession]

\* A submit after the clear, on the session and on the shadow
FreshAfterSubmit ==
    /\ harness.mode = "fresh" /\ harness.round = 2
    /\ harness.other # <<>> /\ Head(Head(harness.other)) = SubmitMark
    /\ sendMessage(Tail(Head(harness.other)))
    /\ UNCHANGED <<terminal, listens>>
    /\ harness' = [harness EXCEPT
                     !.other = Tail(@),
                     !.shadow = SubmittedSession(@, Tail(Head(harness.other)), now)]

\* A chunk after the clear, on the session and on the shadow
FreshAfterFeed ==
    /\ harness.mode = "fresh" /\ harness.round = 2
    /\ harness.other # <<>> /\ Head(Head(harness.other)) # SubmitMark
    /\ Feed(Head(harness.other), harness.eager)
    /\ UNCHANGED <<terminal, listens>>
    /\ harness' = [harness EXCEPT
                     !.other = Tail(@),
                     !.shadow = PtyDataListener(@, Head(harness.other), activeToolId,
                                                harness.eager, now)]

NextFresh ==
    FreshMount \/ FreshPrelude \/ FreshSubmit \/ FreshClear \/ FreshAfterSubmit \/ FreshAfterFeed

SpecFresh == InitFresh /\ [][NextFresh]_vars

----------------------------------------------------------------------------
(* Scripts: every sequence of at most MaxScript operations, on text of the
   kinds a shell or a tool prints (prompt echoes, short and long lines, lines
   that arrive in pieces), run after the mount. *)

MaxScript == 3

SwitchMark == "switch"

ScriptChunks ==
    { <<">", " ", NL>>, <<"$", NL>>, <<"a", NL>>, <<"Actual output here", NL>>,
      <<" ", "a", NL>>, <<">", " ", "a", NL>>, <<"hello ">>, <<"world", NL>>,
      JsonLine(BodyText) }

ScriptOps ==
    ScriptChunks \cup { <<SubmitMark, "a">>, <<SwitchMark, "bash">>, <<SwitchMark, "claude">>,
                        ClearMark }

Scripts == UNION { [1..n -> ScriptOps] : n \in 1..MaxScript }

InitScript ==
    /\ Constructed
    /\ harness \in { [NoHarness EXCEPT !.mode = "script", !.eager = e, !.todo = script] :
                     script \in Scripts, e \in BOOLEAN }

\* The operation the script is at, <<>> when it is over
ScriptOp == IF harness.todo = <<>> THEN <<>> ELSE Head(harness.todo)

\* The operation moves from what is to do to what was done
ScriptAdvance ==
    /\ harness' = [harness EXCEPT !.todo = Tail(@), !.other = Append(@, ScriptOp)]
    /\ UNCHANGED <<terminal, listens>>

ScriptMount == harness.mode = "script" /\ MountEffects /\ UNCHANGED <<harness, terminal, listens>>

ScriptSubmit ==
    /\ harness.mode = "script"
    /\ ScriptOp # <<>> /\ Head(ScriptOp) = SubmitMark
    /\ sendMessage(Tail(ScriptOp))
    /\ ScriptAdvance

\* The user picks another tool (the script stops at a switch to the active one)
ScriptSwitch ==
    /\ harness.mode = "script"
    /\ ScriptOp # <<>> /\ Head(ScriptOp) = SwitchMark
    /\ ToolChanges(ScriptOp[2])
    /\ ScriptAdvance

ScriptClear ==
    /\ harness.mode = "script"
    /\ ScriptOp = ClearMark
    /\ handleClear
    /\ ScriptAdvance

ScriptFeed ==
    /\ harness.mode = "script"
    /\ ScriptOp \in ScriptChunks
    /\ Feed(ScriptOp, harness.eager)
    /\ ScriptAdvance

NextScript == ScriptMount \/ ScriptSubmit \/ ScriptSwitch \/ ScriptClear \/ ScriptFeed

SpecScript == InitScript /\ [][NextScript]_vars

----------------------------------------------------------------------------
(* Line reassembly: every text of up to MaxStream characters among a letter,
   a carriage return and a line feed, cut into chunks in every way and fed
   chunk by chunk.  The history records the chunks fed (harness.other) and
   the lines the listener handed to its forEach (harness.first). *)

MaxStream == 4

LineAlphabet == {"a", CR, NL}

LineStreams == UNION { [1..n -> LineAlphabet] : n \in 1..MaxStream }

InitLines ==
    /\ Constructed
    /\ harness \in UNION { { [NoHarness EXCEPT !.mode = "lines", !.eager = e, !.todo = cut] :
                               cut \in Cuts(stream), e \in BOOLEAN } :
                             stream \in LineStreams }

LinesMount == harness.mode = "lines" /\ MountEffects /\ UNCHANGED <<harness, terminal, listens>>

LinesFeed ==
    /\ harness.mode = "lines"
    /\ harness.todo # <<>>
    /\ Feed(Head(harness.todo), harness.eager)
    /\ UNCHANGED <<terminal, listens>>
    /\ harness' = [harness EXCEPT
                     !.todo = Tail(@),
                     !.other = Append(@, Head(harness.todo)),
                     !.first = @ \o CompleteLines(lineBufferRef, Head(harness.todo))]

NextLines == LinesMount \/ LinesFeed

SpecLines == InitLines /\ [][NextLines]_vars

----------------------------------------------------------------------------
(* The clock: Date.now() advances between the steps.  What the user does
   (a submit, a clear, a tool switch), the 800 ms timer and the first chunk
   of a burst come at least a millisecond after the step before; the chunks
   of a burst may follow one another within the same millisecond. *)

MaxNow == 2

ClockChunks == { <<"a", NL>>, JsonLine(BodyText), JsonLine(BodyText) \o JsonLine(BodyResult) }

\* At least a millisecond passes
Tick ==
    /\ now < MaxNow
    /\ now' = now + 1
    /\ lastOp' = "tick"
    /\ UNCHANGED <<messages, outputBufferRef, lineBufferRef, isStructuredTurnRef, activeToolId,
                   mounted, initCalls, launchTimer, structuredSeen, harness,
                   currentDirectory, terminal, listens>>
    /\ ptyWritten' = <<>>

NextClock ==
    \/ Mount
    \/ Tick
    \/ lastOp = "tick" /\ \E tool \in Tools : SwitchTool(tool)
    \/ \E i \in 1..MaxInFlight, ok \in BOOLEAN : InitPtyReturns(i, ok)
    \/ lastOp = "tick" /\ LaunchTimerFires
    \/ lastOp = "tick" /\ \E text \in InputTexts : Submit(text)
    \/ lastOp = "tick" /\ Clear
    \/ lastOp \in {"tick", "data"} /\ \E payload \in ClockChunks, eager \in BOOLEAN : PtyData(payload, eager)

SpecClock == Init /\ [][NextClock]_vars

----------------------------------------------------------------------------
(* The terminal view (src/src/components/Terminal.tsx).  The file holds two
   components, TerminalUI and Terminal; terminal.kind says which one the
   page shows, known from its first mount on.  Each run of the effect is a view: the xterm it created and the
   initPty it started, which goes on after the cleanup of the effect.

   A payload of OSC 7 is a sequence of tokens: the scheme, a host, slashes,
   path segments, a drive, percent escapes. *)

MaxViews == 2

TerminalKinds == {"Terminal", "TerminalUI"}

FileScheme == "file://"
Host == "host"
\* A host that new URL() rejects (it holds a space)
BadHost == "ho st"
Slash == "/"
Backslash == "\\"
Drive == "C:"
Space == " "
\* The escape of a space, and an escape that is no escape ('%zz')
Pct20 == "%20"
PctBad == "%zz"

Thrown == [ok |-> FALSE, text |-> <<>>]
Returned(text) == [ok |-> TRUE, text |-> text]

\* The position of the first slash of a text, 0 when there is none
FirstSlash(text) ==
    IF \E i \in 1..Len(text) : text[i] = Slash
    THEN CHOOSE i \in 1..Len(text) : text[i] = Slash /\ \A j \in 1..(i - 1) : text[j] # Slash
    ELSE 0

\* The URL parser percent-encodes the spaces of a path
PercentEncode(text) == [i \in 1..Len(text) |-> IF text[i] = Space THEN Pct20 ELSE text[i]]

\* new URL(data).pathname of a file:// payload: the host ends at the first
\* slash, the path is what follows, '/' when nothing does; an invalid host throws
UrlPathname(data) ==
    LET rest == Tail(data)
        k == FirstSlash(rest)
        host == IF k = 0 THEN rest ELSE SubSeq(rest, 1, k - 1)
    IN  IF \E i \in 1..Len(host) : host[i] = BadHost THEN Thrown
        ELSE IF k = 0 THEN Returned(<<Slash>>)
        ELSE Returned(PercentEncode(SubSeq(rest, k, Len(rest))))

\* decodeURIComponent that leaves the escapes as they are
decodeURIComponentSkipped(text) == Returned(text)

\* decodeURIComponent: every escape is replaced by its character; a malformed
\* escape throws a URIError
decodeURIComponent(text) ==
    IF \E i \in 1..Len(text) : text[i] = PctBad THEN Thrown
    ELSE Returned([i \in 1..Len(text) |-> IF text[i] = Pct20 THEN Space ELSE text[i]])

\* Windows path cleanup: /C:/Users/... -> C:\Users\...
WindowsCleanup(path) ==
    IF Len(path) >= 2 /\ path[1] = Slash /\ path[2] = Drive
    THEN [i \in 1..(Len(path) - 1) |-> IF path[i + 1] = Slash THEN Backslash ELSE path[i + 1]]
    ELSE path

\* The path that the handler of OSC 7 hands to setCurrentDirectory, if any:
\* an error thrown on the way is caught, an empty path is not set
Osc7Path(data) ==
    LET decoded == IF data # <<>> /\ Head(data) = FileScheme
                   THEN LET url == UrlPathname(data)
                        IN  IF url.ok THEN decodeURIComponent(url.text) ELSE Thrown
                   ELSE Returned(data)
    IN  IF ~decoded.ok THEN Thrown
        ELSE LET path == WindowsCleanup(decoded.text)
             IN  IF path # <<>> THEN Returned(path) ELSE Thrown

\* The handler that forgets the directory when it sets none
Osc7HandlerForgets(dir, data) ==
    IF Osc7Path(data).ok THEN Osc7Path(data).text ELSE NoDirectory

\* The handler of OSC 7 on a payload: the directory it leaves in the store
Osc7Handler(dir, data) ==
    IF Osc7Path(data).ok THEN Osc7Path(data).text ELSE dir

\* The payloads a shell reports here
Osc7Payloads ==
    { <<FileScheme, Host, Slash, "home", Slash, "dev">>,
      <<FileScheme, Slash, Drive, Slash, "Users", Slash, "dev">>,
      <<FileScheme, Slash, "my", Pct20, "dir">>,
      <<FileScheme, Slash, "my", Space, "dir">>,
      <<FileScheme, Host>>,
      <<FileScheme, Slash, PctBad>>,
      <<FileScheme, BadHost, Slash, "home">>,
      <<Slash, "tmp">>,
      <<"not a uri">>,
      <<>> }

\* What the user picks in the directory dialog
PickedDirectories == { <<Slash, "srv">> }

\* A run of the effect: initPty awaits listen()
NewView == [status |-> "listening", listener |-> FALSE, banner |-> FALSE, opens |-> 0,
            gone |-> FALSE, disposed |-> FALSE]

Views == terminal.views

\* The view on the page, 0 when there is none
LiveView == IF Views # <<>> /\ ~Last(Views).gone THEN Len(Views) ELSE 0

\* Terminal: the cleanup that initPty returned (none after the git warning)
ReturnedCleanup(v) ==
    IF v.status = "open" THEN [v EXCEPT !.listener = FALSE, !.disposed = TRUE]
    ELSE IF v.status = "failed" THEN [v EXCEPT !.listener = FALSE]
    ELSE v

\* TerminalUI: if (unlisten) unlisten(); term.dispose()
EffectCleanup(v) == [v EXCEPT !.listener = FALSE, !.disposed = TRUE, !.gone = TRUE]

\* Terminal: cleanupPromise.then(cleanup => cleanup && cleanup()) runs once
\* the effect was cleaned up and initPty has returned
Settled(v) ==
    IF terminal.kind = "Terminal" /\ v.gone /\ v.status \in {"open", "failed", "nogit"}
    THEN ReturnedCleanup(v) ELSE v

\* The cleanup of the effect
Cleaned(v) ==
    IF terminal.kind = "Terminal" THEN Settled([v EXCEPT !.gone = TRUE]) ELSE EffectCleanup(v)

\* The catch of initPty that tries again
OpenFailedRetries(v) == [v EXCEPT !.status = "opening", !.banner = TRUE, !.opens = @ + 1]

\* The catch of initPty: the banner is written and initPty returns
OpenFailed(v) == [v EXCEPT !.status = "failed", !.banner = TRUE]

\* What no action of the terminal view changes
ChatUnchanged ==
    /\ UNCHANGED <<messages, outputBufferRef, lineBufferRef, isStructuredTurnRef, activeToolId,
                   mounted, initCalls, launchTimer, now, structuredSeen, harness, listens>>
    /\ ptyWritten' = <<>>

SetView(i, v, op) ==
    /\ terminal' = [terminal EXCEPT !.views[i] = v]
    /\ lastOp' = op
    /\ UNCHANGED currentDirectory
    /\ ChatUnchanged

\* The user opens the terminal page
TerminalMount(kind) ==
    /\ terminal.kind \in {"", kind}
    /\ LiveView = 0
    /\ Len(Views) < MaxViews
    /\ terminal' = [kind |-> kind, views |-> Append(Views, NewView)]
    /\ lastOp' = "terminalMount"
    /\ UNCHANGED currentDirectory
    /\ ChatUnchanged

\* listen('pty-data') resolves: the listener is registered; Terminal goes on
\* to the git check, TerminalUI to ptyClose
TerminalListens(i) ==
    /\ i \in 1..Len(Views) /\ Views[i].status = "listening"
    /\ SetView(i, [Views[i] EXCEPT !.listener = TRUE,
                                   !.status = IF terminal.kind = "Terminal" THEN "checking"
                                              ELSE "closing"], "terminalListens")

\* invoke('check_executable') returns: without git, the warning and no pty
GitCheckReturns(i, ok) ==
    /\ i \in 1..Len(Views) /\ Views[i].status = "checking"
    /\ SetView(i, Settled([Views[i] EXCEPT !.status = IF ok THEN "closing" ELSE "nogit"]),
               "gitCheck")

\* ptyClose returns: ptyOpen is called, or the catch runs
TerminalPtyCloseReturns(i, ok) ==
    /\ i \in 1..Len(Views) /\ Views[i].status = "closing"
    /\ IF ok
       THEN SetView(i, [Views[i] EXCEPT !.status = "opening", !.opens = @ + 1], "ptyClosed")
       ELSE SetView(i, Settled(OpenFailed(Views[i])), "openFailed")

\* ptyOpen returns: the session is open, or the catch runs
TerminalPtyOpenReturns(i, ok) ==
    /\ i \in 1..Len(Views) /\ Views[i].status = "opening"
    /\ IF ok
       THEN SetView(i, Settled([Views[i] EXCEPT !.status = "open"]), "ptyOpened")
       ELSE SetView(i, Settled(OpenFailed(Views[i])), "openFailed")

\* The user leaves the terminal page
TerminalUnmount ==
    /\ LiveView # 0
    /\ SetView(LiveView, Cleaned(Views[LiveView]), "terminalUnmount")

\* TerminalUI: the user changes a font or colour setting, the effect runs again
SettingsChange ==
    /\ terminal.kind = "TerminalUI"
    /\ LiveView # 0
    /\ Len(Views) < MaxViews
    /\ terminal' = [terminal EXCEPT !.views = Append([@ EXCEPT ![LiveView] = Cleaned(@)], NewView)]
    /\ lastOp' = "settings"
    /\ UNCHANGED currentDirectory
    /\ ChatUnchanged

\* handleRestart: window.location.reload(), from the terminal page; the store
\* starts again, or is restored
TerminalRestart ==
    /\ LiveView # 0
    /\ ~mounted
    /\ terminal' = [terminal EXCEPT !.views = <<>>]
    /\ currentDirectory' \in {currentDirectory, NoDirectory}
    /\ lastOp' = "restart"
    /\ ChatUnchanged

\* A chunk with an OSC 7 reaches the xterm of a Terminal: its parser calls the handler
Osc7Report(i, data) ==
    /\ terminal.kind = "Terminal"
    /\ i \in 1..Len(Views) /\ Views[i].listener /\ ~Views[i].disposed
    /\ currentDirectory' = Osc7Handler(currentDirectory, data)
    /\ lastOp' = IF Osc7Path(data).ok THEN "osc7" ELSE "osc7Dropped"
    /\ UNCHANGED terminal
    /\ ChatUnchanged

\* handleSelectDirectory: the user picks a directory in the dialog
SelectDirectory(dir) ==
    /\ LiveView # 0 \/ mounted
    /\ currentDirectory' = dir
    /\ lastOp' = "selectDirectory"
    /\ UNCHANGED terminal
    /\ ChatUnchanged

InitTerminal ==
    /\ Constructed
    /\ harness = NoHarness

NextTerminal ==
    \/ \E kind \in TerminalKinds : TerminalMount(kind)
    \/ \E i \in 1..MaxViews : TerminalListens(i)
    \/ \E i \in 1..MaxViews, ok \in BOOLEAN : GitCheckReturns(i, ok)
    \/ \E i \in 1..MaxViews, ok \in BOOLEAN : TerminalPtyCloseReturns(i, ok)
    \/ \E i \in 1..MaxViews, ok \in BOOLEAN : TerminalPtyOpenReturns(i, ok)
    \/ TerminalUnmount
    \/ SettingsChange
    \/ TerminalRestart
    \/ \E i \in 1..MaxViews, data \in Osc7Payloads : Osc7Report(i, data)
    \/ \E dir \in PickedDirectories : SelectDirectory(dir)

SpecTerminal == InitTerminal /\ [][NextTerminal]_vars

----------------------------------------------------------------------------
(* The store's directory under the chat view: a Terminal reports directories,
   the user picks one, and the chat view runs on the same store. *)

DirectoryChunks == { <<"a", NL>>, JsonLine(BodyText) }

NextDirectory ==
    \/ TerminalMount("Terminal")
    \/ \E i \in 1..MaxViews : TerminalListens(i)
    \/ \E i \in 1..MaxViews, data \in Osc7Payloads : Osc7Report(i, data)
    \/ \E dir \in PickedDirectories : SelectDirectory(dir)
    \/ Mount
    \/ \E text \in InputTexts : Submit(text)
    \/ Clear
    \/ \E payload \in DirectoryChunks, eager \in BOOLEAN : PtyData(payload, eager)

SpecDirectory == Init /\ [][NextDirectory]_vars

----------------------------------------------------------------------------
(* The subscription effect of the chat view, await by await: each run of the
   effect calls listen('pty-data') and initChatPty, both of which go on after
   the cleanup of the run.  listens holds one entry per run: whether its
   listen() has resolved, and whether its listener was removed. *)

MaxEffects == 3

\* run(): unlisten = await listen(...) is pending
Listening == [state |-> "pending", cleaned |-> FALSE]

\* The cleanup of the current run: if (unlisten) unlisten()
CleanedUp(runs) ==
    IF runs = <<>> THEN runs
    ELSE [runs EXCEPT ![Len(runs)] =
            [state |-> IF @.state = "registered" THEN "removed" ELSE @.state, cleaned |-> TRUE]]

\* The listeners of 'pty-data' that the chat view has registered
Registered == { i \in 1..Len(listens) : listens[i].state = "registered" }

InitEffects ==
    /\ Constructed
    /\ harness = [NoHarness EXCEPT !.mode = "effects"]

\* The first run of the effects
EffectMount ==
    /\ harness.round = 0
    /\ MountEffects
    /\ listens' = Append(listens, Listening)
    /\ UNCHANGED <<harness, terminal>>

\* The tool changes: the cleanup of the run, then the next run
EffectSwitch(tool) ==
    /\ Len(listens) < MaxEffects
    /\ ToolChanges(tool)
    /\ listens' = Append(CleanedUp(listens), Listening)
    /\ UNCHANGED <<harness, terminal>>

\* listen() resolves: the listener is registered and unlisten is assigned,
\* whether or not the cleanup of its run is over
ListenResolves(i) ==
    /\ i \in 1..Len(listens) /\ listens[i].state = "pending"
    /\ listens' = [listens EXCEPT ![i].state = "registered"]
    /\ lastOp' = "listen"
    /\ UNCHANGED <<messages, outputBufferRef, lineBufferRef, isStructuredTurnRef, activeToolId,
                   mounted, initCalls, launchTimer, now, structuredSeen, harness,
                   currentDirectory, terminal>>
    /\ ptyWritten' = <<>>

\* The user leaves the chat page: the cleanup of the run (the timer is cleared)
Unmount ==
    /\ mounted
    /\ mounted' = FALSE
    /\ launchTimer' = ""
    /\ listens' = CleanedUp(listens)
    /\ harness' = [harness EXCEPT !.round = 1]
    /\ lastOp' = "unmount"
    /\ UNCHANGED <<messages, outputBufferRef, lineBufferRef, isStructuredTurnRef, activeToolId,
                   initCalls, now, structuredSeen, currentDirectory, terminal>>
    /\ ptyWritten' = <<>>

NextEffects ==
    \/ EffectMount
    \/ \E tool \in Tools : EffectSwitch(tool)
    \/ \E i \in 1..MaxEffects : ListenResolves(i)
    \/ \E i \in 1..MaxEffects, ok \in BOOLEAN : InitPtyReturns(i, ok)
    \/ LaunchTimerFires
    \/ Unmount

SpecEffects == InitEffects /\ [][NextEffects]_vars

----------------------------------------------------------------------------
(* Claims *)

\* The step is the listener run on a chunk whose complete lines are `lines`
DataStep(lines) ==
    \E payload \in Chunks, eager \in BOOLEAN :
        /\ CompleteLines(lineBufferRef, payload) = lines
        /\ PtyData(payload, eager)

Line(chunk) == SubSeq(chunk, 1, Len(chunk) - 1)

\* C1: at most one message is streaming, and a streaming message is the last
\* element of the list
C1_StreamingIsLast ==
    \A i \in 1..Len(messages) : messages[i].isStreaming => i = Len(messages)

\* C2: once a structured event was handled in a turn, a chunk of raw-text
\* lines changes the content of no message, whatever the active tool
C2_RawIgnoredAfterStructured ==
    [][(structuredSeen /\ DataStep(<<Line(<<"a", NL>>)>>))
        => /\ Len(messages') >= Len(messages)
           /\ \A i \in 1..Len(messages) : messages'[i].content = messages[i].content]_vars

\* C4: a submit of non-blank text closes every streaming message without
\* touching its content, appends the user message and then an open assistant
\* message holding the placeholder, empties the output buffer and resets the
\* turn-mode flag
C4_Submit ==
    [][\A text \in InputTexts :
         (Trim(text) # <<>> /\ sendMessage(text))
         => /\ Len(messages') = Len(messages) + 2
            /\ \A i \in 1..Len(messages) :
                 /\ ~messages'[i].isStreaming
                 /\ messages'[i].content = messages[i].content
                 /\ messages'[i].role = messages[i].role
                 /\ messages'[i].blocks = messages[i].blocks
            /\ messages'[Len(messages) + 1].role = "user"
            /\ messages'[Len(messages) + 1].content = text
            /\ ~messages'[Len(messages) + 1].isStreaming
            /\ messages'[Len(messages) + 2].role = "assistant"
            /\ messages'[Len(messages) + 2].content = <<"...">>
            /\ messages'[Len(messages) + 2].isStreaming
            /\ outputBufferRef' = <<>>
            /\ isStructuredTurnRef' = FALSE]_vars

\* A submit has closed an assistant message that a structured event had opened
C4_Witness ==
    /\ lastOp = "submit"
    /\ Len(messages) = 3
    /\ messages[1].role = "assistant" /\ messages[1].content = <<"Hi">>
    /\ messages[3].isStreaming

\* C5: after a result event no message is streaming
C5_ResultClosesAll ==
    [][DataStep(<<Line(JsonLine(BodyResult))>>)
        => \A i \in 1..Len(messages') : ~messages'[i].isStreaming]_vars

\* The text of the text blocks of an event, in order, and its other blocks
RECURSIVE EventText(_)
EventText(blocks) ==
    IF blocks = <<>> THEN <<>>
    ELSE (IF Head(blocks).type = "text" THEN Head(blocks).text ELSE <<>>) \o EventText(Tail(blocks))

RECURSIVE EventArtifacts(_)
EventArtifacts(blocks) ==
    IF blocks = <<>> THEN <<>>
    ELSE (IF Head(blocks).type = "text" THEN <<>> ELSE <<Head(blocks)>>) \o EventArtifacts(Tail(blocks))

\* The assistant messages that are open
OpenAssistants(msgs) ==
    { i \in 1..Len(msgs) : msgs[i].role = "assistant" /\ msgs[i].isStreaming }

\* C6: a message/assistant event appends the text of its text blocks to the
\* content of the open assistant message and its other blocks to blocks, or
\* opens a streaming assistant message holding them when none is open; from an
\* empty list, the event with text "Hi" and then a result event leave one
\* closed assistant message with content "Hi"
C6_AssistantEvent ==
    [][/\ \A body \in {BodyText, BodyTool} :
            DataStep(<<Line(JsonLine(body))>>)
            => IF OpenAssistants(messages) # {}
               THEN /\ Len(messages') = Len(messages)
                    /\ \E i \in OpenAssistants(messages) :
                         /\ messages'[i].content
                              = messages[i].content \o EventText(BodyValue(body).blocks)
                         /\ messages'[i].blocks
                              = messages[i].blocks \o EventArtifacts(BodyValue(body).blocks)
                         /\ messages'[i].isStreaming
                         /\ \A k \in 1..Len(messages) : k # i => messages'[k] = messages[k]
               ELSE /\ Front(messages') = messages
                    /\ Last(messages').role = "assistant"
                    /\ Last(messages').content = EventText(BodyValue(body).blocks)
                    /\ Last(messages').blocks = EventArtifacts(BodyValue(body).blocks)
                    /\ Last(messages').isStreaming
       /\ (messages = <<>> /\ DataStep(<<Line(JsonLine(BodyText))>>))
            => messages' = <<Msg(now, "assistant", <<"Hi">>, TRUE, <<>>)>>
       /\ (messages = <<Msg(now, "assistant", <<"Hi">>, TRUE, <<>>)>>
             /\ DataStep(<<Line(JsonLine(BodyResult))>>))
            => messages' = <<Msg(now, "assistant", <<"Hi">>, FALSE, <<>>)>>
       /\ (messages = <<>>
             /\ DataStep(<<Line(JsonLine(BodyText)), Line(JsonLine(BodyResult))>>))
            => messages' = <<Msg(now, "assistant", <<"Hi">>, FALSE, <<>>)>>]_vars

\* C7: after a clear the list and the output buffer are empty and the
\* turn-mode flag is reset
C7_ClearResets ==
    lastOp \in {"clear", "clearAfterSubmit"}
    => messages = <<>> /\ outputBufferRef = <<>> /\ isStructuredTurnRef = FALSE

\* C9: a submit followed at once by a clear leaves the message list empty,
\* and whatever is done next leaves the message list, the output buffer and
\* the turn-mode flag that it leaves on a new session
C9_SubmitThenClearIsFresh ==
    (harness.mode = "fresh" /\ harness.round = 2)
    => /\ lastOp = "clearAfterSubmit" => messages = <<>>
       /\ View(messages) = View(harness.shadow.messages)
       /\ outputBufferRef = harness.shadow.outputBuffer
       /\ isStructuredTurnRef = harness.shadow.isStructuredTurn

\* C10: a raw-text line that passes the noise filter while the last message is
\* a closed assistant message opens a streaming assistant message seeded with it
C10_RawAfterClosedOpensTurn ==
    [][(/\ messages # <<>>
        /\ Last(messages).role = "assistant" /\ ~Last(messages).isStreaming
        /\ ~(ToolFilters(activeToolId) /\ isStructuredTurnRef)
        /\ DataStep(<<Line(<<"a", NL>>)>>))
        => /\ Len(messages') = Len(messages) + 1
           /\ Last(messages').isStreaming
           /\ Last(messages').content = <<"a">>]_vars


\* C3: the chunks of a stream, however it is cut, leave the message list
\* that the stream fed as a single chunk leaves
C3_ChunkBoundaryIndependence ==
    (harness.mode = "cutting" /\ harness.todo = <<>> /\ harness.other = <<>>)
    => View(messages) = View(harness.shadow.messages)

\* C8: the second replay leaves the message list the first replay left
C8_ReplayIdempotent ==
    (harness.mode = "replay" /\ harness.todo = <<>>)
    => View(messages) = harness.first

\* The step is the listener run on a chunk of EventChunks whose complete lines are `lines`
EventStep(lines) ==
    \E payload \in EventChunks, eager \in BOOLEAN :
        /\ CompleteLines(lineBufferRef, payload) = lines
        /\ PtyData(payload, eager)

IsPrefix(a, b) == Len(a) <= Len(b) /\ SubSeq(b, 1, Len(a)) = a

IsClearStep == lastOp' \in {"clear", "clearAfterSubmit"}

\* C11: no step but a clear changes the content or the blocks of a closed
\* message, or removes it
C11_ClosedIsImmutable ==
    [][~IsClearStep
        => \A i \in 1..Len(messages) :
             ~messages[i].isStreaming
             => /\ i <= Len(messages')
                /\ messages'[i].content = messages[i].content
                /\ messages'[i].blocks = messages[i].blocks
                /\ ~messages'[i].isStreaming]_vars

\* A chunk was handled while a message that a result event had closed is
\* followed by another message
C11_Witness ==
    /\ lastOp = "data"
    /\ Len(messages) >= 2
    /\ messages[1].content = <<"Hi">> /\ ~messages[1].isStreaming
    /\ Last(messages).isStreaming

\* C12: every step but a clear keeps the messages, in order, as a prefix of
\* the new list, and changes no field of any message but the last
C12_AppendOrMutateLast ==
    [][~IsClearStep
        => /\ Len(messages') >= Len(messages)
           /\ \A i \in 1..Len(messages) :
                /\ messages'[i].id = messages[i].id
                /\ i < Len(messages) => messages'[i] = messages[i]]_vars

\* C14: no line makes the handling of a chunk fail: the component is never
\* taken down by an error
C14_NoUnhandledFailure ==
    lastOp # "renderError"

\* C15: a line that parses to a value that is no message, assistant or result
\* event changes neither the list, nor the output buffer, nor the turn-mode flag
C15_UnrecognizedChangesNothing ==
    [][\A chunk \in {JsonLine(BodyOther), JsonLine(BodyOtherText), <<"5", NL>>, <<"null", NL>>} :
         EventStep(<<Line(chunk)>>)
         => UNCHANGED <<messages, outputBufferRef, isStructuredTurnRef>>]_vars

\* C17: a step that opens a streaming assistant message leaves the output
\* buffer empty, or holding the raw text the message was opened with
C17_BufferResetOnOpen ==
    [][(/\ Len(messages') = Len(messages) + 1
        /\ Last(messages').role = "assistant" /\ Last(messages').isStreaming
        /\ lastOp' = "data")
        => outputBufferRef' = <<>> \/ outputBufferRef' = Last(messages').content]_vars

\* C18: the content of a message that is streaming only grows at its end
C18_StreamingAppendOnly ==
    [][\A i \in 1..Len(messages) :
         (messages[i].isStreaming /\ i <= Len(messages'))
         => IsPrefix(messages[i].content, messages'[i].content)]_vars

\* The complete lines of the chunk the script is at
ScriptLines == CompleteLines(lineBufferRef, ScriptOp)

\* The step is the listener run on a chunk of the script that completes one
\* line, which does not parse
ScriptRawStep ==
    /\ ScriptFeed
    /\ Len(ScriptLines) = 1
    /\ Trim(ScriptLines[1]) # <<>>
    /\ ~JsonParse(ScriptLines[1]).ok

\* What is left of a line once the escape sequences and the white space
\* around it are removed
Visible(line) == Trim(stripAnsi(cleanAnsiForDisplay(line)))

\* C13: a tool switch leaves no pending line fragment and an empty output buffer
C13_CloseDiscardsFragment ==
    lastOp = "switch" => lineBufferRef = <<>> /\ outputBufferRef = <<>>

\* The raw line of the step gets past the filters of the listener and of
\* handleRawOutput
RawAccepted ==
    LET clean == cleanAnsiForDisplay(ScriptLines[1]) IN
    /\ ScriptRawStep
    /\ Visible(ScriptLines[1]) # <<>> \/ StrLen(clean) >= 10
    /\ ~(ToolFilters(activeToolId) /\ (isStructuredTurnRef \/ IsNoise(clean)))

\* C16 as amended: a raw line accepted while the last message is an open
\* assistant message is appended to the output buffer, and the content of the
\* message becomes the buffer without a leading "> " and without leading
\* white space; a chunk that completes no line changes nothing
C16_ContentIsCleanedBuffer ==
    [][/\ (RawAccepted /\ LastIsOpenAssistant(messages))
          => /\ outputBufferRef' = outputBufferRef \o cleanAnsiForDisplay(ScriptLines[1])
             /\ Len(messages') = Len(messages)
             /\ Front(messages') = Front(messages)
             /\ Last(messages')
                  = [Last(messages) EXCEPT !.content = TrimStart(DropPrompt(outputBufferRef'))]
       /\ (ScriptFeed /\ ScriptLines = <<>>)
          => UNCHANGED <<messages, outputBufferRef>>]_vars

\* After a submit, "hello " and then "world" and a newline have arrived
C16_Witness ==
    /\ harness.mode = "script"
    /\ harness.other = << <<SubmitMark, "a">>, <<"hello ">>, <<"world", NL>> >>
    /\ LastIsOpenAssistant(messages)
    /\ Last(messages).content = <<"hello ", "world">>

\* C16: a raw line accepted while the last message is an open assistant
\* message makes the content of the message the full value of the output buffer
C16_ContentIsBuffer ==
    [][(RawAccepted /\ LastIsOpenAssistant(messages))
        => /\ outputBufferRef' = outputBufferRef \o cleanAnsiForDisplay(ScriptLines[1])
           /\ Last(messages').content = outputBufferRef']_vars

\* C19: with a tool (not the plain shell) active and the turn-mode flag not set, the line "> "
\* changes neither the list nor the output buffer, and the line "Actual output
\* here" that follows it while no assistant message is open opens a streaming
\* assistant message with that content
C19_NoiseThenOutput ==
    [][/\ (/\ ScriptRawStep /\ ScriptLines[1] = <<">", " ">>
           /\ activeToolId \notin {NoTool, "bash"} /\ ~isStructuredTurnRef)
          => UNCHANGED <<messages, outputBufferRef>>
       /\ (/\ ScriptRawStep /\ ScriptLines[1] = <<"Actual output here">>
           /\ harness.other # <<>> /\ Last(harness.other) = <<">", " ", NL>>
           /\ activeToolId \notin {NoTool, "bash"} /\ ~isStructuredTurnRef
           /\ OpenAssistants(messages) = {})
          => /\ Front(messages') = messages
             /\ Last(messages').role = "assistant"
             /\ Last(messages').isStreaming
             /\ Last(messages').content = <<"Actual output here">>]_vars

\* C20 as amended: with a tool other than bash active and the turn-mode flag
\* not set, a raw line that shows a lone ">" or "$" and is shorter than 5
\* characters changes neither the output buffer nor the list
C20_NoiseDiscarded ==
    [][(/\ ScriptRawStep
        /\ activeToolId # NoTool /\ activeToolId # "bash" /\ ~isStructuredTurnRef
        /\ Visible(ScriptLines[1]) \in { <<">">>, <<"$">> }
        /\ StrLen(cleanAnsiForDisplay(ScriptLines[1])) < 5)
        => UNCHANGED <<messages, outputBufferRef>>]_vars

\* The line "> " has arrived after text that opened a message, with claude active
C20_Witness ==
    /\ harness.mode = "script"
    /\ activeToolId = "claude"
    /\ harness.other = << ClearMark, <<"a", NL>>, <<">", " ", NL>> >>
    /\ LastIsOpenAssistant(messages)
    /\ outputBufferRef = <<"a">>

\* C20: with a tool active and the turn-mode flag not set, a raw line that
\* shows a lone ">" or "$", or that is shorter than 5 characters, changes neither
\* the output buffer nor the list
C20_ShortOrPromptDiscarded ==
    [][(/\ ScriptRawStep
        /\ activeToolId # NoTool /\ ~isStructuredTurnRef
        /\ \/ Visible(ScriptLines[1]) \in { <<">">>, <<"$">> }
           \/ StrLen(cleanAnsiForDisplay(ScriptLines[1])) < 5)
        => UNCHANGED <<messages, outputBufferRef>>]_vars


----------------------------------------------------------------------------
(* Line reassembly *)

RECURSIVE Concat(_)
Concat(chunks) == IF chunks = <<>> THEN <<>> ELSE Head(chunks) \o Concat(Tail(chunks))

\* The positions of the line feeds of a text
NlPositions(text) == { i \in 1..Len(text) : text[i] = NL }

\* The k-th of them
NlPosition(text, k) ==
    CHOOSE i \in NlPositions(text) : Cardinality({ j \in NlPositions(text) : j <= i }) = k

\* The segment that the k-th line feed terminates, without its \n or \r\n
Segment(text, k) ==
    LET from == IF k = 1 THEN 1 ELSE NlPosition(text, k - 1) + 1
        seg == SubSeq(text, from, NlPosition(text, k) - 1)
    IN  IF seg # <<>> /\ Last(seg) = CR THEN Front(seg) ELSE seg

TerminatedSegments(text) == [k \in 1..Cardinality(NlPositions(text)) |-> Segment(text, k)]

UnterminatedTail(text) ==
    LET n == Cardinality(NlPositions(text))
    IN  SubSeq(text, IF n = 0 THEN 1 ELSE NlPosition(text, n) + 1, Len(text))

\* The characters of the lines and of the fragment, a line feed after each line
RECURSIVE Rejoined(_, _)
Rejoined(lines, fragment) ==
    IF lines = <<>> THEN fragment
    ELSE Head(lines) \o <<NL>> \o Rejoined(Tail(lines), fragment)

\* The text without the carriage returns that a line feed follows
RECURSIVE WithoutDelimiterCr(_)
WithoutDelimiterCr(text) ==
    IF text = <<>> THEN <<>>
    ELSE IF Head(text) = CR /\ Len(text) >= 2 /\ text[2] = NL
         THEN WithoutDelimiterCr(Tail(text))
         ELSE <<Head(text)>> \o WithoutDelimiterCr(Tail(text))

\* C21: after any sequence of chunks, the lines handed to the classification
\* are, in order, the segments of the concatenation of the chunks that a \n or
\* \r\n terminates, the delimiter removed, and the pending fragment is the
\* unterminated tail; the fragment holds no line feed, and the lines and the
\* fragment hold every character of the input once, the delimiters apart
C21_LineReassembly ==
    harness.mode = "lines" /\ mounted =>
        LET input == Concat(harness.other) IN
        /\ harness.first = TerminatedSegments(input)
        /\ lineBufferRef = UnterminatedTail(input)
        /\ \A i \in 1..Len(lineBufferRef) : lineBufferRef[i] # NL
        /\ Rejoined(harness.first, lineBufferRef) = WithoutDelimiterCr(input)

\* A \r\n cut between its two characters has been fed
C21_Witness ==
    /\ harness.mode = "lines" /\ mounted /\ harness.todo = <<>>
    /\ harness.other = << <<"a", CR>>, <<NL, "a">> >>
    /\ harness.first = << <<"a">> >>
    /\ lineBufferRef = <<"a">>


----------------------------------------------------------------------------
(* Classification *)

\* C22: a complete non-blank line is handled as a structured event or as raw
\* text, never both: a line that parsed never reaches the raw-text handling
\* (the output buffer is left alone), and a line that failed to parse never
\* has the effect of an event (the turn-mode flag is left alone)
C22_EventOrRawText ==
    [][\A chunk \in EventChunks :
         EventStep(<<Line(chunk)>>) /\ lastOp' = "data"
         => IF JsonParse(Line(chunk)).ok
            THEN outputBufferRef' = outputBufferRef
            ELSE isStructuredTurnRef' = isStructuredTurnRef]_vars


----------------------------------------------------------------------------
(* Message ids *)

\* C23: no two messages of the list have the same id
C23_UniqueIds ==
    \A i, j \in 1..Len(messages) : i # j => messages[i].id # messages[j].id


----------------------------------------------------------------------------
(* The working directory *)

\* The step is the handler of OSC 7 run on the payload
ReportStep(data) == \E i \in 1..MaxViews : Osc7Report(i, data)

\* C24: an accepted report overwrites the directory with the normalized path:
\* file://host/home/dev gives /home/dev, file:///my%20dir gives '/my dir', and
\* file:///C:/Users/dev gives C:\Users\dev, whatever the directory was before
C24_Osc7Normalized ==
    [][/\ ReportStep(<<FileScheme, Host, Slash, "home", Slash, "dev">>)
          => currentDirectory' = <<Slash, "home", Slash, "dev">>
       /\ ReportStep(<<FileScheme, Slash, "my", Pct20, "dir">>)
          => currentDirectory' = <<Slash, "my", Space, "dir">>
       /\ ReportStep(<<FileScheme, Slash, Drive, Slash, "Users", Slash, "dev">>)
          => currentDirectory' = <<Drive, Backslash, "Users", Backslash, "dev">>]_vars

\* A report has replaced the directory of an earlier one by C:\Users\dev
C24_Witness ==
    /\ lastOp = "osc7"
    /\ currentDirectory = <<Drive, Backslash, "Users", Backslash, "dev">>

\* The payloads that are no file:// URI, or hold an escape that cannot be
\* decoded, or hold nothing
MalformedPayloads ==
    { <<"not a uri">>, <<FileScheme, BadHost, Slash, "home">>, <<FileScheme, Slash, PctBad>>, <<>> }

\* C25 as claimed: a malformed payload leaves the directory as it was
C25_MalformedDropped ==
    [][\A data \in MalformedPayloads :
         ReportStep(data) => currentDirectory' = currentDirectory]_vars

\* C25: a payload that starts with file:// and is no URL or holds an escape
\* that cannot be decoded, and an empty payload, leave the directory as it was
\* and the view as it was: no error, the handler stays registered
C25_MalformedFileUriDropped ==
    [][\A data \in MalformedPayloads \ { <<"not a uri">> } :
         ReportStep(data) => /\ currentDirectory' = currentDirectory
                             /\ terminal' = terminal
                             /\ lastOp' = "osc7Dropped"]_vars

\* A malformed report was dropped: the directory is the one reported before
C25_Witness ==
    /\ lastOp = "osc7Dropped"
    /\ currentDirectory = <<Slash, "home", Slash, "dev">>

\* C26: the chat pipeline leaves the working directory alone: a clear, a
\* submit, a blank submit, and a chunk of raw lines or events do not change it
C26_ChatLeavesDirectory ==
    [][lastOp' \in {"clear", "clearAfterSubmit", "submit", "submitBlank", "data", "renderError"}
       => currentDirectory' = currentDirectory]_vars

\* A directory was reported and the session was cleared afterwards
C26_Witness ==
    /\ lastOp \in {"clear", "clearAfterSubmit"}
    /\ currentDirectory = <<Slash, "home", Slash, "dev">>

\* C27: a failed open writes the error banner and opens nothing, and the view
\* whose open failed never calls ptyOpen again; a view is only created by the
\* user, who opens the page, restarts it or, in TerminalUI, changes a setting
C27_NoAutomaticReopen ==
    [][/\ \A i \in 1..Len(Views) :
            i <= Len(terminal'.views) =>
                /\ lastOp' = "openFailed" /\ terminal'.views[i] # Views[i]
                   => terminal'.views[i].banner /\ terminal'.views[i].opens = Views[i].opens
                /\ Views[i].banner => terminal'.views[i].opens = Views[i].opens
       /\ Len(terminal'.views) > Len(Views) => lastOp' \in {"terminalMount", "settings"}]_vars

\* ptyOpen was called once and failed: the banner is written
C27_Witness ==
    \E i \in 1..Len(Views) :
        Views[i].status = "failed" /\ Views[i].banner /\ Views[i].opens = 1


----------------------------------------------------------------------------
(* Roles *)

\* C28: a user message is never streaming
C28_UserNeverStreaming ==
    \A i \in 1..Len(messages) : messages[i].role = "user" => ~messages[i].isStreaming

\* A user message stands before the streaming placeholder of its turn
C28_Witness ==
    /\ Len(messages) >= 2
    /\ messages[Len(messages) - 1].role = "user"
    /\ Last(messages).role = "assistant" /\ Last(messages).isStreaming


----------------------------------------------------------------------------
(* The subscription and the launch *)

\* C29: at most one listener of the chat view is registered at a time, and
\* none once the view is unmounted
C29_OneListener ==
    /\ Cardinality(Registered) <= 1
    /\ harness.round = 1 => Registered = {}

\* C30: the launch command written to the pty is the command of the active
\* tool, and none is written once the view is unmounted
C30_LaunchIsActiveTool ==
    [][lastOp' = "launch" => mounted /\ launchTimer = ToolCommand(activeToolId)]_vars


----------------------------------------------------------------------------
(* The placeholder *)

\* C31: the first content merged into the message that a submit opened
\* replaces the placeholder: after an assistant event with text "Hi" the
\* content is "Hi", after an accepted raw line it is the buffer, and in both
\* cases the placeholder is no part of it
C31_PlaceholderReplaced ==
    [][/\ lastOp = "submit" /\ lastOp' = "data"
       /\ \/ DataStep(<<Line(JsonLine(BodyText))>>)
          \/ DataStep(<<"a">>) /\ activeToolId = NoTool
       => /\ Last(messages').content \in { <<"Hi">>, outputBufferRef' }
          /\ \A i \in 1..Len(Last(messages').content) :
                <<Last(messages').content[i]>> # Placeholder]_vars


----------------------------------------------------------------------------
(* Frame conditions *)

\* C32: a submit of an empty or blank input changes nothing: the list (no
\* streaming message is closed), the output buffer and the turn-mode flag are
\* as before, and nothing is written to the pty
C32_BlankSubmitIsNoOp ==
    [][(\E text \in InputTexts : Trim(text) = <<>> /\ Submit(text))
       => /\ UNCHANGED <<messages, outputBufferRef, isStructuredTurnRef, lineBufferRef>>
          /\ ptyWritten' = <<>>]_vars

\* A blank input was submitted while a message was streaming and the flag set
C32_Witness ==
    /\ lastOp = "submitBlank"
    /\ messages # <<>> /\ Last(messages).isStreaming
    /\ isStructuredTurnRef


\* C33: a tool switch empties the output buffer, clears the turn-mode flag and
\* appends one system notice that is not streaming; the messages that were
\* there keep their content, their blocks and their streaming flag
C33_SwitchAppendsNotice ==
    [][\A tool \in Tools :
         SwitchTool(tool)
         => /\ outputBufferRef' = <<>>
            /\ ~isStructuredTurnRef'
            /\ Len(messages') = Len(messages) + 1
            /\ Front(messages') = messages
            /\ Last(messages').content = SystemNotice(tool)
            /\ ~Last(messages').isStreaming]_vars

\* The tool was switched while a message was streaming: the notice is behind it
C33_Witness ==
    /\ lastOp = "switch"
    /\ Len(messages) >= 2
    /\ messages[Len(messages) - 1].isStreaming
    /\ Last(messages).content = SystemNotice(activeToolId)


----------------------------------------------------------------------------
(* The listener of the terminal view *)

\* C34: once the terminal view is unmounted and its initPty has returned, its
\* listener of 'pty-data' is removed, and no listener writes to a terminal
\* that is disposed
C34_UnmountRemovesListener ==
    \A i \in 1..Len(Views) :
        /\ Views[i].gone /\ Views[i].status \in {"open", "failed", "nogit"} => ~Views[i].listener
        /\ ~(Views[i].disposed /\ Views[i].listener)

====
